---- MODULE Spec2Model ----
(***************************************************************************)
(* Model of src/app.py: the synthetic banking dataset generator            *)
(* gerar_dados (lines 56-184), the Streamlit cache that wraps it and the   *)
(* script steps that consume the generated table.                          *)
(*                                                                         *)
(* Numbers.  Python floats are modelled as exact fixed-point integers, one *)
(* unit per column:                                                        *)
(*   saldo_conta               1/SaldoUnit  of a currency unit             *)
(*   valor_transacoes_mensais  1/ValorUnit                                 *)
(*   satisfacao                1/SatUnit    of a point                     *)
(*   receita, custo, rentab.   1/MoneyUnit                                 *)
(* Every multiplication of the code is exact in these units.               *)
(*                                                                         *)
(* Random numbers.  numpy's global generator is a deterministic function   *)
(* of its seed and of how many values were drawn since seeding.  Which     *)
(* function it is, is not known to the model: mt selects one candidate     *)
(* out of a family, chosen in Init and never changed.  A candidate yields  *)
(* at each stream position a level 0..4; each distribution maps the level  *)
(* to one of five representative outcomes, chosen to fall below, inside    *)
(* and above the clipping ranges of the code.                              *)
(*                                                                         *)
(* Strings are written without accents (Agencia, Caixa Eletronico, ...).   *)
(***************************************************************************)
EXTENDS Integers, Sequences, FiniteSets, TLC

VARIABLES
    mt,          \* the candidate generator function of the process (fixed)
    np_random,   \* numpy's global RandomState: [seed, pos]
    py_random,   \* Python's global random.Random: [seed, pos]
    pc,          \* position inside gerar_dados ("idle" outside a call)
    fr,          \* the frame of the running call: its locals, by name
    pre,         \* the two global generators as they were at call entry
    prev         \* the last call that returned before the running one:
                 \* its n_linhas, its pre, its clock value and its table

\* the Streamlit process around the generator and one run of the script
VARIABLES
    cache,           \* st.cache_data's entries for gerar_dados: n_linhas -> table
    runs,            \* how often the body ran for each n_linhas since the cache
                     \* was last cleared
    spc,             \* position of the script run
    arg,             \* the argument of the script's call of gerar_dados
    hit,             \* the script's call was answered from the cache
    ret,             \* the table as the call handed it to the script
    heap,            \* the DataFrame objects of the script run, by reference
    df,              \* the script's names: references into heap (0: unbound)
    df_plot,
    df_valor,
    df_atendimento,
    df_modelo,
    canais_custo,
    custo_por_interacao,
    custo_medio_app  \* the script's number: a fraction (<<>>: unbound)

\* the script's names for the per-channel cost figures
custos_canal == <<canais_custo, custo_por_interacao, custo_medio_app>>

appvars ==
    <<cache, runs, spc, arg, hit, ret, heap, df, df_plot, df_valor, df_atendimento,
      df_modelo, custos_canal>>

vars == <<mt, np_random, py_random, pc, fr, pre, prev, appvars>>

---------------------------------------------------------------------------
(* Bounds of the model *)

\* record counts passed to gerar_dados range over MinN..MaxN
MaxN == 2
\* candidate generator functions are numbered 0..MaxGen
MaxGen == 24

MinN == 0 - 1
\* the count of body runs per record count saturates at MaxRuns
MaxRuns == 2

\* wall-clock values datetime.now() may return
Clock == {1000, 2000}

---------------------------------------------------------------------------
(* Fixed-point units *)

SaldoUnit == 400
ValorUnit == 2000
SatUnit   == 1000
MoneyUnit == 400000

\* np.round / Series.round to a multiple of q: round half to even
round(x, q) ==
    LET r    == x % q
        down == x - r
    IN  IF 2 * r < q THEN down
        ELSE IF 2 * r > q THEN down + q
        ELSE IF (down \div q) % 2 = 0 THEN down ELSE down + q

\* np.clip
clip(x, lo, hi) == IF x < lo THEN lo ELSE IF x > hi THEN hi ELSE x

\* ndarray.astype(int) of a float held in tenths: truncation toward zero
astype_int(x10) == IF x10 >= 0 THEN x10 \div 10 ELSE 0 - ((0 - x10) \div 10)

---------------------------------------------------------------------------
(* The random generator *)

\* the stream has a period; positions wrap around it
Period == 125

\* level 0..4 that candidate g yields at position p of the stream of seed s
Raw(g, s, p) ==
    LET b  == g % 5
        a0 == (g \div 5) % 5
        a1 == (g \div 25) % 5
    IN  (b + s + a0 * (p % 5) + (a1 + 1) * ((p \div 5) % 5) + (p \div 25)) % 5

\* np.random.seed(s) / random.seed(s): the generator restarts the stream of s
seed(s) == [seed |-> s, pos |-> 0]

\* the levels of the next k values of generator state st (k <= 0: none)
NextLevels(st, k) == [j \in 1..k |-> Raw(mt, st.seed, (st.pos + j - 1) % Period)]

\* the generator state after k values were drawn
Advance(st, k) == [st EXCEPT !.pos = (st.pos + (IF k > 0 THEN k ELSE 0)) % Period]

\* standard normal deviates, in tenths
ZScore == <<0 - 45, 0 - 11, 1, 30, 120>>
\* np.random.normal(loc, scale): loc + scale * z, in tenths
normal(loc, scale, lvl) == loc * 10 + scale * ZScore[lvl + 1]

\* quantiles of the unit exponential, in 1/4000000
ExpQ == <<1, 493827, 3999999, 199999999, 240000000>>
\* np.random.exponential(scale), in 1/unit
exponential(scale, unit, lvl) == ExpQ[lvl + 1] * ((scale * unit) \div 4000000)

\* np.random.lognormal(3.5, 1), in tenths
LogNormal35 == <<7, 331, 1199, 2405, 7002>>
\* np.random.lognormal(3, 1), in 1/MoneyUnit
LogNormal3 == <<161370, 659488, 1087314, 2955624, 8034214>>

\* np.random.negative_binomial(3, 0.4)
NegBinomial == <<0, 1, 2, 7, 11>>
\* np.random.beta(7, 3), in 1/100000
Beta73 == <<40, 45560, 70240, 96270, 99960>>
\* np.random.poisson(3)
Poisson3 == <<0, 2, 3, 30, 41>>
\* the uniform deviate np.random.choice compares with the cumulated p, in percent
Uniform == <<10, 50, 70, 90, 97>>

\* np.random.choice(a, p=p): the first element whose cumulated probability
\* (cum, in percent) exceeds the uniform deviate
choice(a, cum, lvl) ==
    a[CHOOSE k \in 1..Len(a) :
        /\ Uniform[lvl + 1] < cum[k]
        /\ \A j \in 1..(k - 1) : Uniform[lvl + 1] >= cum[j]]

---------------------------------------------------------------------------
(* gerar_dados, lines 57-184, one action per statement *)

\* the lists the code iterates over or draws from, in the code's order
SegmentosLista == <<"Varejo", "Premium", "Alta Renda", "Private">>
SegmentosCum   == <<65, 85, 95, 100>>
CanaisLista    == <<"App", "Internet Banking", "Agencia", "Central Telefonica",
                    "Caixa Eletronico">>
CanaisCum      == <<45, 70, 85, 95, 100>>
AtivoLista     == <<TRUE, FALSE>>
AtivoCum       == <<85, 100>>
\* mutant: the age pass enumerates the channels in the order of line 98
CanaisIdade_as_drawn ==
    <<"App", "Internet Banking", "Agencia", "Central Telefonica", "Caixa Eletronico">>
CanaisIdade    == <<"App", "Internet Banking", "Caixa Eletronico",
                    "Central Telefonica", "Agencia">>

\* mutant: the cost table has no entry for the cash machine
custos_base_sem_caixa ==
    [c \in {"App", "Internet Banking", "Central Telefonica", "Agencia"} |->
        CASE c = "App"                -> MoneyUnit \div 2
          [] c = "Internet Banking"   -> MoneyUnit
          [] c = "Central Telefonica" -> 7 * MoneyUnit
          [] c = "Agencia"            -> 15 * MoneyUnit]

\* custos_base, lines 168-174, in 1/MoneyUnit; a channel without an entry
\* keeps the 0 of np.zeros
custos_base ==
    [c \in {"App", "Internet Banking", "Caixa Eletronico", "Central Telefonica",
            "Agencia"} |->
        CASE c = "App"                -> MoneyUnit \div 2
          [] c = "Internet Banking"   -> MoneyUnit
          [] c = "Caixa Eletronico"   -> 3 * MoneyUnit
          [] c = "Central Telefonica" -> 7 * MoneyUnit
          [] c = "Agencia"            -> 15 * MoneyUnit]

\* the locals of a call before it has run a statement
NoFrame ==
    [n_linhas |-> 0, data_atual |-> 0, ids_clientes |-> <<>>, idades |-> <<>>,
     saldos |-> <<>>, segmentos |-> <<>>, tempo_cliente |-> <<>>,
     num_produtos |-> <<>>, canais |-> <<>>, satisfacao |-> <<>>, ativo |-> <<>>,
     valor_transacoes |-> <<>>, freq_contatos |-> <<>>, df |-> <<>>, i |-> 0,
     base_receita |-> <<>>, custo_atendimento |-> <<>>]

Rows == 1..fr.n_linhas

\* goto: the frame changes as given, everything else stays
Step(next, newfr) ==
    /\ pc' = next
    /\ fr' = newfr
    /\ UNCHANGED <<mt, np_random, py_random, pre, prev, appvars>>

\* a statement that draws k values from numpy's global generator
DrawStep(next, newfr, k) ==
    /\ pc' = next
    /\ fr' = newfr
    /\ np_random' = Advance(np_random, k)
    /\ UNCHANGED <<mt, py_random, pre, prev, appvars>>

\* df with column c replaced (or added)
SetCol(d, c, v) == [x \in (DOMAIN d) \cup {c} |-> IF x = c THEN v ELSE d[x]]

\* line 57: control enters gerar_dados(n)
Enter(n) ==
    /\ pc \in {"idle", "done", "raised"}
    /\ pc' = "seed"
    /\ fr' = [NoFrame EXCEPT !.n_linhas = n]
    /\ pre' = <<np_random, py_random>>
    /\ prev' = IF pc = "done"
               THEN [n |-> fr.n_linhas, pre |-> pre, data_atual |-> fr.data_atual,
                     df |-> fr.df]
               ELSE prev
    /\ UNCHANGED <<mt, np_random, py_random>>

\* gerar_dados(n) called directly, without the cache
Call(n) == Enter(n) /\ UNCHANGED appvars

\* mutant: line 68 missing, numpy's generator keeps the state it had
SeedGenerators_py_only ==
    /\ pc = "seed"
    /\ pc' = "clock"
    /\ py_random' = seed(42)
    /\ UNCHANGED <<mt, np_random, fr, pre, prev, appvars>>

\* mutant: line 69 missing, Python's generator keeps the state it had
SeedGenerators_np_only ==
    /\ pc = "seed"
    /\ pc' = "clock"
    /\ np_random' = seed(42)
    /\ UNCHANGED <<mt, py_random, fr, pre, prev, appvars>>

\* lines 68-69: np.random.seed(42); random.seed(42)
SeedGenerators ==
    /\ pc = "seed"
    /\ pc' = "clock"
    /\ np_random' = seed(42)
    /\ py_random' = seed(42)
    /\ UNCHANGED <<mt, fr, pre, prev, appvars>>

\* line 72: data_atual = datetime.datetime.now()
ReadClock ==
    /\ pc = "clock"
    /\ \E t \in Clock : Step("ids", [fr EXCEPT !.data_atual = t])

\* mutant: the ids start one too low
arange_zero_based(lo, hi) == [k \in 1..(hi - lo) |-> lo + k - 2]

\* np.arange(lo, hi): lo, lo+1, ..., hi-1 (empty when hi <= lo)
arange(lo, hi) == [k \in 1..(hi - lo) |-> lo + k - 1]

\* line 75: ids_clientes = np.arange(1, n_linhas + 1)
MakeIds ==
    /\ pc = "ids"
    /\ Step("idades", [fr EXCEPT !.ids_clientes = arange(1, fr.n_linhas + 1)])

\* mutant: a negative size is taken as an empty draw, as np.arange takes it
DrawIdades_no_size_check ==
    /\ pc = "idades"
    /\ LET lv == NextLevels(np_random, fr.n_linhas)
       IN  DrawStep("saldos",
               [fr EXCEPT !.idades =
                   [k \in Rows |-> clip(astype_int(normal(42, 15, lv[k])), 18, 85)]],
               fr.n_linhas)

\* lines 78-79.  A negative size makes np.random.normal raise ValueError
\* ("negative dimensions are not allowed") before it draws anything.
DrawIdades ==
    /\ pc = "idades"
    /\ IF fr.n_linhas < 0
       THEN Step("raised", fr)
       ELSE LET lv == NextLevels(np_random, fr.n_linhas)
            IN  DrawStep("saldos",
                    [fr EXCEPT !.idades =
                        [k \in Rows |-> clip(astype_int(normal(42, 15, lv[k])), 18, 85)]],
                    fr.n_linhas)

\* mutant: the balance is clipped at 0 only, the cap of 500000 is missing
DrawSaldos_no_cap ==
    /\ pc = "saldos"
    /\ LET lv == NextLevels(np_random, fr.n_linhas)
       IN  DrawStep("segmentos",
               [fr EXCEPT !.saldos =
                   [k \in Rows |->
                       IF exponential(10000, SaldoUnit, lv[k]) < 0
                       THEN 0
                       ELSE exponential(10000, SaldoUnit, lv[k])]],
               fr.n_linhas)

\* lines 82-83
DrawSaldos ==
    /\ pc = "saldos"
    /\ LET lv == NextLevels(np_random, fr.n_linhas)
       IN  DrawStep("segmentos",
               [fr EXCEPT !.saldos =
                   [k \in Rows |-> clip(exponential(10000, SaldoUnit, lv[k]),
                                        0, 500000 * SaldoUnit)]],
               fr.n_linhas)

\* lines 86-87
DrawSegmentos ==
    /\ pc = "segmentos"
    /\ LET lv == NextLevels(np_random, fr.n_linhas)
       IN  DrawStep("tempo_cliente",
               [fr EXCEPT !.segmentos =
                   [k \in Rows |-> choice(SegmentosLista, SegmentosCum, lv[k])]],
               fr.n_linhas)

\* lines 90-91
DrawTempoCliente ==
    /\ pc = "tempo_cliente"
    /\ LET lv == NextLevels(np_random, fr.n_linhas)
       IN  DrawStep("num_produtos",
               [fr EXCEPT !.tempo_cliente =
                   [k \in Rows |-> clip(astype_int(LogNormal35[lv[k] + 1]), 1, 480)]],
               fr.n_linhas)

\* lines 94-95
DrawNumProdutos ==
    /\ pc = "num_produtos"
    /\ LET lv == NextLevels(np_random, fr.n_linhas)
       IN  DrawStep("canais",
               [fr EXCEPT !.num_produtos =
                   [k \in Rows |-> clip(NegBinomial[lv[k] + 1] + 1, 1, 8)]],
               fr.n_linhas)

\* lines 98-99
DrawCanais ==
    /\ pc = "canais"
    /\ LET lv == NextLevels(np_random, fr.n_linhas)
       IN  DrawStep("satisfacao",
               [fr EXCEPT !.canais =
                   [k \in Rows |-> choice(CanaisLista, CanaisCum, lv[k])]],
               fr.n_linhas)

\* line 102: np.random.beta(7, 3, n) * 100, in 1/SatUnit
DrawSatisfacao ==
    /\ pc = "satisfacao"
    /\ LET lv == NextLevels(np_random, fr.n_linhas)
       IN  DrawStep("ativo",
               [fr EXCEPT !.satisfacao =
                   [k \in Rows |-> Beta73[lv[k] + 1] * ((100 * SatUnit) \div 100000)]],
               fr.n_linhas)

\* line 105
DrawAtivo ==
    /\ pc = "ativo"
    /\ LET lv == NextLevels(np_random, fr.n_linhas)
       IN  DrawStep("valor_transacoes",
               [fr EXCEPT !.ativo =
                   [k \in Rows |-> choice(AtivoLista, AtivoCum, lv[k])]],
               fr.n_linhas)

\* lines 108-109
DrawValorTransacoes ==
    /\ pc = "valor_transacoes"
    /\ LET lv == NextLevels(np_random, fr.n_linhas)
       IN  DrawStep("freq_contatos",
               [fr EXCEPT !.valor_transacoes =
                   [k \in Rows |-> clip(exponential(2000, ValorUnit, lv[k]),
                                        0, 50000 * ValorUnit)]],
               fr.n_linhas)

\* lines 112-113
DrawFreqContatos ==
    /\ pc = "freq_contatos"
    /\ LET lv == NextLevels(np_random, fr.n_linhas)
       IN  DrawStep("dataframe",
               [fr EXCEPT !.freq_contatos =
                   [k \in Rows |-> clip(Poisson3[lv[k] + 1], 0, 30)]],
               fr.n_linhas)

\* mutant: the three float columns are stored as drawn, without np.round
BuildDataFrame_unrounded ==
    /\ pc = "dataframe"
    /\ Step("saldo_segmento",
            [fr EXCEPT
                !.df = [id_cliente |-> fr.ids_clientes,
                        idade |-> fr.idades,
                        saldo_conta |-> fr.saldos,
                        segmento |-> fr.segmentos,
                        tempo_cliente_meses |-> fr.tempo_cliente,
                        num_produtos |-> fr.num_produtos,
                        canal_preferido |-> fr.canais,
                        satisfacao |-> fr.satisfacao,
                        cliente_ativo |-> fr.ativo,
                        valor_transacoes_mensais |-> fr.valor_transacoes,
                        freq_contatos_mensais |-> fr.freq_contatos],
                !.i = 0])

\* lines 116-128: the initial table, 11 columns
BuildDataFrame ==
    /\ pc = "dataframe"
    /\ Step("saldo_segmento",
            [fr EXCEPT
                !.df = [id_cliente |-> fr.ids_clientes,
                        idade |-> fr.idades,
                        saldo_conta |->
                            [k \in Rows |-> round(fr.saldos[k], SaldoUnit \div 100)],
                        segmento |-> fr.segmentos,
                        tempo_cliente_meses |-> fr.tempo_cliente,
                        num_produtos |-> fr.num_produtos,
                        canal_preferido |-> fr.canais,
                        satisfacao |->
                            [k \in Rows |-> round(fr.satisfacao[k], SatUnit \div 10)],
                        cliente_ativo |-> fr.ativo,
                        valor_transacoes_mensais |->
                            [k \in Rows |-> round(fr.valor_transacoes[k], ValorUnit \div 100)],
                        freq_contatos_mensais |-> fr.freq_contatos],
                !.i = 0])

\* df.loc[mask, c] = new[mask], for the rows whose column m equals v
UpdateWhere(d, m, v, c, new) ==
    SetCol(d, c, [k \in DOMAIN d[c] |-> IF d[m][k] = v THEN new[k] ELSE d[c][k]])

\* mutant: the factor is i * 1.5, the + 1 forgotten
ScaleSaldo_from_zero ==
    /\ pc = "saldo_segmento"
    /\ LET f(x) == ((x \div 2) * 3) * fr.i
           d    == UpdateWhere(fr.df, "segmento", SegmentosLista[fr.i + 1],
                               "saldo_conta",
                               [k \in Rows |-> f(fr.df.saldo_conta[k])])
       IN  IF fr.i < 3
           THEN Step("saldo_segmento", [fr EXCEPT !.df = d, !.i = fr.i + 1])
           ELSE Step("satisfacao_segmento", [fr EXCEPT !.df = d, !.i = 0])

\* mutant: every segment's balance is scaled by 1.5, whatever its rank
ScaleSaldo_flat ==
    /\ pc = "saldo_segmento"
    /\ LET f(x) == (x \div 2) * 3
           d    == UpdateWhere(fr.df, "segmento", SegmentosLista[fr.i + 1],
                               "saldo_conta",
                               [k \in Rows |-> f(fr.df.saldo_conta[k])])
       IN  IF fr.i < 3
           THEN Step("saldo_segmento", [fr EXCEPT !.df = d, !.i = fr.i + 1])
           ELSE Step("satisfacao_segmento", [fr EXCEPT !.df = d, !.i = 0])

\* lines 132-134, iteration i: saldo_conta * (i + 1) * 1.5 for the segment's rows
ScaleSaldo ==
    /\ pc = "saldo_segmento"
    /\ LET f(x) == ((x \div 2) * 3) * (fr.i + 1)
           d    == UpdateWhere(fr.df, "segmento", SegmentosLista[fr.i + 1],
                               "saldo_conta",
                               [k \in Rows |-> f(fr.df.saldo_conta[k])])
       IN  IF fr.i < 3
           THEN Step("saldo_segmento", [fr EXCEPT !.df = d, !.i = fr.i + 1])
           ELSE Step("satisfacao_segmento", [fr EXCEPT !.df = d, !.i = 0])

\* mutant: the rank counts from 1, Varejo's scores are boosted too
ScaleSatisfacao_from_one ==
    /\ pc = "satisfacao_segmento"
    /\ LET f(x) == (x \div 100) * (100 + 5 * (fr.i + 1))
       IN  Step("satisfacao_clip",
                [fr EXCEPT !.df = UpdateWhere(fr.df, "segmento",
                                              SegmentosLista[fr.i + 1],
                                              "satisfacao",
                                              [k \in Rows |-> f(fr.df.satisfacao[k])])])

\* line 139, iteration i: satisfacao * (1 + i * 0.05) for the segment's rows
ScaleSatisfacao ==
    /\ pc = "satisfacao_segmento"
    /\ LET f(x) == (x \div 100) * (100 + 5 * fr.i)
       IN  Step("satisfacao_clip",
                [fr EXCEPT !.df = UpdateWhere(fr.df, "segmento",
                                              SegmentosLista[fr.i + 1],
                                              "satisfacao",
                                              [k \in Rows |-> f(fr.df.satisfacao[k])])])

\* mutant: line 140 missing, the boosted score is not clipped again
ClipSatisfacao_skipped ==
    /\ pc = "satisfacao_clip"
    /\ IF fr.i < 3
       THEN Step("satisfacao_segmento", [fr EXCEPT !.i = fr.i + 1])
       ELSE Step("valor_produtos", [fr EXCEPT !.i = 1])

\* line 140, iteration i: np.clip(satisfacao, 0, 100) for the segment's rows
ClipSatisfacao ==
    /\ pc = "satisfacao_clip"
    /\ LET f(x) == clip(x, 0, 100 * SatUnit)
           d    == UpdateWhere(fr.df, "segmento", SegmentosLista[fr.i + 1],
                               "satisfacao",
                               [k \in Rows |-> f(fr.df.satisfacao[k])])
       IN  IF fr.i < 3
           THEN Step("satisfacao_segmento", [fr EXCEPT !.df = d, !.i = fr.i + 1])
           ELSE Step("valor_produtos", [fr EXCEPT !.df = d, !.i = 1])

\* mutant: the rows are picked by the product count they will have after the
\* tenure boost of lines 154-155
BoostValor_final_count ==
    /\ pc = "valor_produtos"
    /\ LET f(x) == (x \div 20) * (20 + 3 * fr.i)
           p(k) == clip(fr.df.num_produtos[k] + (fr.df.tempo_cliente_meses[k] \div 120),
                        1, 8)
           d    == SetCol(fr.df, "valor_transacoes_mensais",
                          [k \in Rows |->
                              IF p(k) = fr.i
                              THEN f(fr.df.valor_transacoes_mensais[k])
                              ELSE fr.df.valor_transacoes_mensais[k]])
       IN  IF fr.i < 8
           THEN Step("valor_produtos", [fr EXCEPT !.df = d, !.i = fr.i + 1])
           ELSE Step("idade_canal", [fr EXCEPT !.df = d, !.i = 0])

\* lines 143-145, iteration prod = i (1..8):
\* valor_transacoes_mensais * (1 + prod * 0.15) for the rows with prod products
BoostValor ==
    /\ pc = "valor_produtos"
    /\ LET f(x) == (x \div 20) * (20 + 3 * fr.i)
           d    == UpdateWhere(fr.df, "num_produtos", fr.i,
                               "valor_transacoes_mensais",
                               [k \in Rows |-> f(fr.df.valor_transacoes_mensais[k])])
       IN  IF fr.i < 8
           THEN Step("valor_produtos", [fr EXCEPT !.df = d, !.i = fr.i + 1])
           ELSE Step("idade_canal", [fr EXCEPT !.df = d, !.i = 0])

\* the rows of d whose column m equals v (the mask), and how many of them
\* come at or before row k
Mask(d, m, v) == {k \in DOMAIN d[m] : d[m][k] = v}
RankIn(S, k) == Cardinality({j \in S : j <= k})

\* mutant: the re-drawn age is blended with the age the row had, not stored
\* in its place
RedrawIdade_blend ==
    /\ pc = "idade_canal"
    /\ LET mask == Mask(fr.df, "canal_preferido", CanaisIdade[fr.i + 1])
           cnt  == Cardinality(mask)
           lv   == NextLevels(np_random, cnt)
           idade_ajuste == [j \in 1..cnt |-> normal(30 + fr.i * 8, 5, lv[j])]
           col  == [k \in DOMAIN fr.df.idade |->
                       IF k \in mask
                       THEN (fr.df.idade[k]
                             + astype_int(clip(idade_ajuste[RankIn(mask, k)], 180, 850)))
                            \div 2
                       ELSE fr.df.idade[k]]
           d    == SetCol(fr.df, "idade", col)
       IN  IF fr.i < 4
           THEN DrawStep("idade_canal", [fr EXCEPT !.df = d, !.i = fr.i + 1], cnt)
           ELSE DrawStep("produtos_tempo", [fr EXCEPT !.df = d, !.i = 0], cnt)

\* lines 148-151, iteration i: as many normal(30 + 8 i, 5) values as the
\* channel has rows, clipped to 18..85, truncated, stored in those rows
RedrawIdade ==
    /\ pc = "idade_canal"
    /\ LET mask == Mask(fr.df, "canal_preferido", CanaisIdade[fr.i + 1])
           cnt  == Cardinality(mask)
           lv   == NextLevels(np_random, cnt)
           idade_ajuste == [j \in 1..cnt |-> normal(30 + fr.i * 8, 5, lv[j])]
           col  == [k \in DOMAIN fr.df.idade |->
                       IF k \in mask
                       THEN astype_int(clip(idade_ajuste[RankIn(mask, k)], 180, 850))
                       ELSE fr.df.idade[k]]
           d    == SetCol(fr.df, "idade", col)
       IN  IF fr.i < 4
           THEN DrawStep("idade_canal", [fr EXCEPT !.df = d, !.i = fr.i + 1], cnt)
           ELSE DrawStep("produtos_tempo", [fr EXCEPT !.df = d, !.i = 0], cnt)

\* mutant: the tenure in decades is rounded to the nearest, not truncated
AddProdutos_rounded ==
    /\ pc = "produtos_tempo"
    /\ Step("produtos_clip",
            [fr EXCEPT !.df = SetCol(fr.df, "num_produtos",
                [k \in Rows |-> fr.df.num_produtos[k]
                                + ((fr.df.tempo_cliente_meses[k] + 60) \div 120)])])

\* line 154: num_produtos + (tempo_cliente_meses / 120).astype(int)
AddProdutos ==
    /\ pc = "produtos_tempo"
    /\ Step("produtos_clip",
            [fr EXCEPT !.df = SetCol(fr.df, "num_produtos",
                [k \in Rows |-> fr.df.num_produtos[k]
                                + (fr.df.tempo_cliente_meses[k] \div 120)])])

\* mutant: the clip to 1..8 is also stored in tempo_cliente_meses
ClipProdutos_and_tempo ==
    /\ pc = "produtos_clip"
    /\ Step("base_receita",
            [fr EXCEPT !.df =
                SetCol(SetCol(fr.df, "num_produtos",
                              [k \in Rows |-> clip(fr.df.num_produtos[k], 1, 8)]),
                       "tempo_cliente_meses",
                       [k \in Rows |-> clip(fr.df.tempo_cliente_meses[k], 1, 8)])])

\* mutant: line 155 missing, the boosted product count is not clipped again
ClipProdutos_skipped ==
    /\ pc = "produtos_clip"
    /\ Step("base_receita", fr)

\* line 155: np.clip(num_produtos, 1, 8)
ClipProdutos ==
    /\ pc = "produtos_clip"
    /\ Step("base_receita",
            [fr EXCEPT !.df = SetCol(fr.df, "num_produtos",
                [k \in Rows |-> clip(fr.df.num_produtos[k], 1, 8)])])

\* line 158: base_receita = np.random.lognormal(3, 1, n_linhas) * 10
DrawBaseReceita ==
    /\ pc = "base_receita"
    /\ LET lv == NextLevels(np_random, fr.n_linhas)
       IN  DrawStep("receita_segmento",
               [fr EXCEPT !.base_receita = [k \in Rows |-> LogNormal3[lv[k] + 1] * 10],
                          !.i = 0],
               fr.n_linhas)

\* lines 159-161, iteration i: base_receita * (1 + i * 0.5) for the segment's rows
ScaleReceitaSegmento ==
    /\ pc = "receita_segmento"
    /\ LET b == [k \in Rows |->
                    IF fr.df.segmento[k] = SegmentosLista[fr.i + 1]
                    THEN (fr.base_receita[k] \div 2) * (2 + fr.i)
                    ELSE fr.base_receita[k]]
       IN  IF fr.i < 3
           THEN Step("receita_segmento", [fr EXCEPT !.base_receita = b, !.i = fr.i + 1])
           ELSE Step("receita_produtos", [fr EXCEPT !.base_receita = b, !.i = 0])

\* line 162: base_receita * (1 + num_produtos * 0.2)
ScaleReceitaProdutos ==
    /\ pc = "receita_produtos"
    /\ Step("receita_transacoes",
            [fr EXCEPT !.base_receita =
                [k \in Rows |-> (fr.base_receita[k] \div 5) * (5 + fr.df.num_produtos[k])]])

\* mutant: the share of the transaction value is subtracted, not added
AddReceitaTransacoes_subtract ==
    /\ pc = "receita_transacoes"
    /\ Step("receita_ativos",
            [fr EXCEPT !.base_receita =
                [k \in Rows |-> fr.base_receita[k]
                    - fr.df.valor_transacoes_mensais[k] * (MoneyUnit \div (ValorUnit * 100))]])

\* line 163: base_receita + valor_transacoes_mensais * 0.01
AddReceitaTransacoes ==
    /\ pc = "receita_transacoes"
    /\ Step("receita_ativos",
            [fr EXCEPT !.base_receita =
                [k \in Rows |-> fr.base_receita[k]
                    + fr.df.valor_transacoes_mensais[k] * (MoneyUnit \div (ValorUnit * 100))]])

\* mutant: the 1.5 is applied to every row, active or not
BoostReceitaAtivos_all ==
    /\ pc = "receita_ativos"
    /\ Step("receita_mensal",
            [fr EXCEPT !.base_receita =
                [k \in Rows |-> (fr.base_receita[k] \div 2) * 3]])

\* line 164: base_receita * 1.5 for the rows of active customers
BoostReceitaAtivos ==
    /\ pc = "receita_ativos"
    /\ Step("receita_mensal",
            [fr EXCEPT !.base_receita =
                [k \in Rows |-> IF fr.df.cliente_ativo[k]
                                THEN (fr.base_receita[k] \div 2) * 3
                                ELSE fr.base_receita[k]]])

\* line 165: df['receita_mensal'] = base_receita.round(2)
StoreReceita ==
    /\ pc = "receita_mensal"
    /\ Step("custos",
            [fr EXCEPT !.df = SetCol(fr.df, "receita_mensal",
                [k \in Rows |-> round(fr.base_receita[k], MoneyUnit \div 100)])])

\* line 175: custo_atendimento = np.zeros(n_linhas)
MakeCustos ==
    /\ pc = "custos"
    /\ Step("custo_canal", [fr EXCEPT !.custo_atendimento = [k \in Rows |-> 0],
                                      !.i = 0])

\* lines 176-178, one iteration per entry of custos_base, in the dict's order
FillCusto ==
    /\ pc = "custo_canal"
    /\ LET canal == CanaisIdade[fr.i + 1]
           c == [k \in Rows |->
                    IF canal \in DOMAIN custos_base /\ fr.df.canal_preferido[k] = canal
                    THEN custos_base[canal]
                    ELSE fr.custo_atendimento[k]]
       IN  IF fr.i < 4
           THEN Step("custo_canal", [fr EXCEPT !.custo_atendimento = c, !.i = fr.i + 1])
           ELSE Step("custo_mensal", [fr EXCEPT !.custo_atendimento = c, !.i = 0])

\* line 179: (custo_atendimento * freq_contatos_mensais).round(2)
StoreCusto ==
    /\ pc = "custo_mensal"
    /\ Step("rentabilidade",
            [fr EXCEPT !.df = SetCol(fr.df, "custo_atendimento_mensal",
                [k \in Rows |-> round(fr.custo_atendimento[k] * fr.df.freq_contatos_mensais[k],
                                      MoneyUnit \div 100)])])

\* mutant: the profitability is taken from the unrounded revenue and not rounded
StoreRentabilidade_unrounded ==
    /\ pc = "rentabilidade"
    /\ Step("return",
            [fr EXCEPT !.df = SetCol(fr.df, "rentabilidade_mensal",
                [k \in Rows |-> fr.base_receita[k] - fr.df.custo_atendimento_mensal[k]])])

\* line 182: (receita_mensal - custo_atendimento_mensal).round(2)
StoreRentabilidade ==
    /\ pc = "rentabilidade"
    /\ Step("return",
            [fr EXCEPT !.df = SetCol(fr.df, "rentabilidade_mensal",
                [k \in Rows |-> round(fr.df.receita_mensal[k]
                                      - fr.df.custo_atendimento_mensal[k],
                                      MoneyUnit \div 100)])])

\* line 184: return df
Return ==
    /\ pc = "return"
    /\ pc' = "done"
    /\ UNCHANGED <<mt, np_random, py_random, fr, pre, prev, appvars>>

---------------------------------------------------------------------------
(* The generator called directly, any number of times *)

\* the process before the script has run
AppInit ==
    /\ cache = <<>>
    /\ runs = [n \in 1..MaxN |-> 0]
    /\ spc = "start"
    /\ arg = 0
    /\ hit = FALSE
    /\ ret = <<>>
    /\ heap = <<>>
    /\ df = 0
    /\ df_plot = 0
    /\ df_valor = 0
    /\ df_atendimento = 0
    /\ df_modelo = 0
    /\ canais_custo = 0
    /\ custo_por_interacao = 0
    /\ custo_medio_app = <<>>

Init ==
    /\ AppInit
    /\ mt \in 0..MaxGen
    /\ np_random = [seed |-> 7, pos |-> 1]
    /\ py_random = [seed |-> 7, pos |-> 3]
    /\ pc = "idle"
    /\ fr = NoFrame
    /\ pre = <<np_random, py_random>>
    /\ prev = [n |-> MinN, pre |-> pre, data_atual |-> 0, df |-> <<>>]

Body ==
    \/ SeedGenerators \/ ReadClock \/ MakeIds
    \/ DrawIdades \/ DrawSaldos \/ DrawSegmentos \/ DrawTempoCliente
    \/ DrawNumProdutos \/ DrawCanais \/ DrawSatisfacao \/ DrawAtivo
    \/ DrawValorTransacoes \/ DrawFreqContatos \/ BuildDataFrame
    \/ ScaleSaldo \/ ScaleSatisfacao \/ ClipSatisfacao \/ BoostValor
    \/ RedrawIdade \/ AddProdutos \/ ClipProdutos
    \/ DrawBaseReceita \/ ScaleReceitaSegmento \/ ScaleReceitaProdutos
    \/ AddReceitaTransacoes \/ BoostReceitaAtivos \/ StoreReceita
    \/ MakeCustos \/ FillCusto \/ StoreCusto \/ StoreRentabilidade \/ Return

Next ==
    \/ \E n \in MinN..MaxN : Call(n)
    \/ Body

Spec == Init /\ [][Next]_vars

---------------------------------------------------------------------------
(* The script: line 216 calls gerar_dados through st.cache_data (line 56), *)
(* the statements after it that bind or write a DataFrame follow.  Every   *)
(* interaction re-runs the script from the top in the same process.        *)
(* Statements that only read df (aggregations, charts, the CSV export) and *)
(* write nothing are not steps of the model.                               *)

\* pandas' missing value in a numeric column
NaN == 0 - 1

Range(s) == {s[k] : k \in DOMAIN s}

\* the script names bound to nothing, no DataFrame object alive
NoObjects ==
    /\ heap' = <<>>
    /\ df' = 0
    /\ df_plot' = 0
    /\ df_valor' = 0
    /\ df_atendimento' = 0
    /\ df_modelo' = 0
    /\ canais_custo' = 0
    /\ custo_por_interacao' = 0
    /\ custo_medio_app' = <<>>

\* a script statement: the interpreter and the cache stay as they are
ScriptStep(next) ==
    /\ spc' = next
    /\ UNCHANGED <<mt, np_random, py_random, pc, fr, pre, prev, cache, runs, arg,
                   hit, ret>>

\* mutant: the cache never has the entry, every call is a miss
Cached_never(c, n) == FALSE

\* line 56, st.cache_data: the cache has an entry for the argument
Cached(c, n) == n \in DOMAIN c

\* lines 56, 216: the call is answered from the cache: the body does not run,
\* the script gets a fresh copy of the stored table
CacheHit(n) ==
    /\ spc = "start"
    /\ Cached(cache, n)
    /\ spc' = "plot_copy"
    /\ arg' = n
    /\ hit' = TRUE
    /\ ret' = cache[n]
    /\ heap' = <<cache[n]>>
    /\ df' = 1
    /\ UNCHANGED <<mt, np_random, py_random, pc, fr, pre, prev, cache, runs,
                   df_plot, df_valor, df_atendimento, df_modelo, custos_canal>>

\* lines 56, 216: no entry for the argument: control enters the body
CacheMiss(n) ==
    /\ spc = "start"
    /\ ~Cached(cache, n)
    /\ Enter(n)
    /\ spc' = "gerando"
    /\ arg' = n
    /\ hit' = FALSE
    /\ runs' = [runs EXCEPT ![n] = IF @ < MaxRuns THEN @ + 1 ELSE @]
    /\ UNCHANGED <<cache, ret, heap, df, df_plot, df_valor, df_atendimento, df_modelo, custos_canal>>

\* line 216: df = gerar_dados(n), n standing for the script's 10000
ScriptCall(n) == CacheHit(n) \/ CacheMiss(n)

\* lines 56, 216: the body has returned: st.cache_data stores the table under
\* the argument and the script binds df to the returned object
CacheStore ==
    /\ spc = "gerando"
    /\ pc = "done"
    /\ spc' = "plot_copy"
    /\ cache' = [x \in (DOMAIN cache) \cup {arg} |-> IF x = arg THEN fr.df ELSE cache[x]]
    /\ ret' = fr.df
    /\ heap' = <<fr.df>>
    /\ df' = 1
    /\ UNCHANGED <<mt, np_random, py_random, pc, fr, pre, prev, runs, arg, hit,
                   df_plot, df_valor, df_atendimento, df_modelo, custos_canal>>

\* mutant: plain assignment, the new name is bound to the same object
copy_alias(h, r) == [heap |-> h, ref |-> r]

\* DataFrame.copy(): a new object with the same columns and values
copy(h, r) == [heap |-> Append(h, h[r]), ref |-> Len(h) + 1]

\* obj[c] = v for the object that reference r names
SetItem(h, r, c, v) == [h EXCEPT ![r] = SetCol(@, c, v)]

\* the smallest integers u with u / SaldoUnit >= e^k, k = 1..15
ExpCeil ==
    <<1088, 2956, 8035, 21840, 59366, 161372, 438654, 1192384, 3241234, 8810587,
      23949657, 65101917, 176965357, 481041714, 1307606949>>

\* np.log1p of a balance held in 1/SaldoUnit, rounded down to a whole number
log1p(x) == Cardinality({k \in DOMAIN ExpCeil : ExpCeil[k] <= x + SaldoUnit})

\* line 314: df_plot = df.copy()
CopyPlot ==
    /\ spc = "plot_copy"
    /\ LET c == copy(heap, df)
       IN  /\ heap' = c.heap
           /\ df_plot' = c.ref
    /\ ScriptStep("saldo_log")
    /\ UNCHANGED <<df, df_valor, df_atendimento, df_modelo, custos_canal>>

\* line 315: df_plot['saldo_log'] = np.log1p(df_plot['saldo_conta'])
StoreSaldoLog ==
    /\ spc = "saldo_log"
    /\ heap' = SetItem(heap, df_plot, "saldo_log",
                       [k \in DOMAIN heap[df_plot].saldo_conta |->
                           log1p(heap[df_plot].saldo_conta[k])])
    /\ ScriptStep("valor_copy")
    /\ UNCHANGED <<df, df_plot, df_valor, df_atendimento, df_modelo, custos_canal>>

\* the j-th smallest value of the non-empty sequence s
Sorted(s, j) ==
    CHOOSE v \in Range(s) :
        /\ Cardinality({k \in DOMAIN s : s[k] < v}) < j
        /\ j <= Cardinality({k \in DOMAIN s : s[k] <= v})

\* Series.quantile(k / 5), linear interpolation between the two neighbouring
\* order statistics, as whole units and fifths of a unit
quantile(s, k) ==
    LET n   == Len(s)
        pos == (n - 1) * k
        i   == pos \div 5
        m   == pos % 5
        lo  == Sorted(s, i + 1)
        hi  == Sorted(s, IF i + 2 <= n THEN i + 2 ELSE n)
        d   == hi - lo
    IN  <<lo + (d \div 5) * m + ((d % 5) * m) \div 5, ((d % 5) * m) % 5>>

\* pd.qcut(s, 5, labels=False, duplicates='drop') + 1: the quintile edges
\* without repetitions; a value's code is the number of edges below it, the
\* lowest edge included in the first bin; no bin (a single edge): NaN
qcut(s) ==
    LET bins == {quantile(s, k) : k \in 0..5}
        ids(x) == IF x = Sorted(s, 1)
                  THEN 1
                  ELSE Cardinality({e \in bins : e[1] < x})
    IN  [k \in DOMAIN s |->
            IF ids(s[k]) = 0 \/ ids(s[k]) = Cardinality(bins)
            THEN NaN
            ELSE ids(s[k])]

\* pd.cut(x, bins, labels): the label of the bin (bins[i], bins[i+1]] that
\* holds x; a missing value or a value in no bin has no label
cut(x, bins, labels) ==
    IF x = NaN \/ x <= bins[1] \/ x > bins[Len(bins)]
    THEN "NaN"
    ELSE labels[CHOOSE i \in 1..Len(labels) : bins[i] < x /\ x <= bins[i + 1]]

\* line 516: df_valor = df.copy()
CopyValor ==
    /\ spc = "valor_copy"
    /\ LET c == copy(heap, df)
       IN  /\ heap' = c.heap
           /\ df_valor' = c.ref
    /\ ScriptStep("score_saldo")
    /\ UNCHANGED <<df, df_plot, df_atendimento, df_modelo, custos_canal>>

\* line 517
StoreScoreSaldo ==
    /\ spc = "score_saldo"
    /\ heap' = SetItem(heap, df_valor, "score_saldo", qcut(heap[df_valor].saldo_conta))
    /\ ScriptStep("score_freq")
    /\ UNCHANGED <<df, df_plot, df_valor, df_atendimento, df_modelo, custos_canal>>

\* line 518: the contacts are raised to at least 1 first (clip(lower=1))
StoreScoreFreq ==
    /\ spc = "score_freq"
    /\ LET f == heap[df_valor].freq_contatos_mensais
       IN  heap' = SetItem(heap, df_valor, "score_freq",
                           qcut([k \in DOMAIN f |-> IF f[k] < 1 THEN 1 ELSE f[k]]))
    /\ ScriptStep("score_valor")
    /\ UNCHANGED <<df, df_plot, df_valor, df_atendimento, df_modelo, custos_canal>>

\* line 519
StoreScoreValor ==
    /\ spc = "score_valor"
    /\ heap' = SetItem(heap, df_valor, "score_valor",
                       qcut(heap[df_valor].valor_transacoes_mensais))
    /\ ScriptStep("score_total")
    /\ UNCHANGED <<df, df_plot, df_valor, df_atendimento, df_modelo, custos_canal>>

\* line 520: the sum of the three scores, missing when one of them is
StoreScoreTotal ==
    /\ spc = "score_total"
    /\ LET d == heap[df_valor]
       IN  heap' = SetItem(heap, df_valor, "score_total",
                           [k \in DOMAIN d.score_saldo |->
                               IF NaN \in {d.score_saldo[k], d.score_freq[k], d.score_valor[k]}
                               THEN NaN
                               ELSE d.score_saldo[k] + d.score_freq[k] + d.score_valor[k]])
    /\ ScriptStep("segmento_valor")
    /\ UNCHANGED <<df, df_plot, df_valor, df_atendimento, df_modelo, custos_canal>>

\* lines 521-523
StoreSegmentoValor ==
    /\ spc = "segmento_valor"
    /\ LET d == heap[df_valor]
       IN  heap' = SetItem(heap, df_valor, "segmento_valor",
                           [k \in DOMAIN d.score_total |->
                               cut(d.score_total[k], <<2, 3, 7, 11, 15>>,
                                   <<"Baixo Valor", "Medio Valor", "Alto Valor",
                                     "Muito Alto Valor">>)])
    /\ ScriptStep("atendimento_copy")
    /\ UNCHANGED <<df, df_plot, df_valor, df_atendimento, df_modelo, custos_canal>>

\* line 562: df_atendimento = df.copy()
CopyAtendimento ==
    /\ spc = "atendimento_copy"
    /\ LET c == copy(heap, df)
       IN  /\ heap' = c.heap
           /\ df_atendimento' = c.ref
    /\ ScriptStep("faixa_contatos")
    /\ UNCHANGED <<df, df_plot, df_valor, df_modelo, custos_canal>>

\* lines 563-565
StoreFaixaContatos ==
    /\ spc = "faixa_contatos"
    /\ LET d == heap[df_atendimento]
       IN  heap' = SetItem(heap, df_atendimento, "faixa_contatos",
                           [k \in DOMAIN d.freq_contatos_mensais |->
                               cut(d.freq_contatos_mensais[k], <<0, 2, 5, 10, 30>>,
                                   <<"0-2", "3-5", "6-10", "11+">>)])
    /\ ScriptStep("faixa_etaria")
    /\ UNCHANGED <<df, df_plot, df_valor, df_atendimento, df_modelo, custos_canal>>

\* mutant: the lowest edge is the lowest age, 18, itself
StoreFaixaEtaria_from_18 ==
    /\ spc = "faixa_etaria"
    /\ LET d == heap[df_atendimento]
       IN  heap' = SetItem(heap, df_atendimento, "faixa_etaria",
                           [k \in DOMAIN d.idade |->
                               cut(d.idade[k], <<18, 30, 45, 60, 85>>,
                                   <<"18-30", "31-45", "46-60", "61+">>)])
    /\ ScriptStep("modelo_copy")
    /\ UNCHANGED <<df, df_plot, df_valor, df_atendimento, df_modelo, custos_canal>>

\* lines 583-585
StoreFaixaEtaria ==
    /\ spc = "faixa_etaria"
    /\ LET d == heap[df_atendimento]
       IN  heap' = SetItem(heap, df_atendimento, "faixa_etaria",
                           [k \in DOMAIN d.idade |->
                               cut(d.idade[k], <<17, 30, 45, 60, 85>>,
                                   <<"18-30", "31-45", "46-60", "61+">>)])
    /\ ScriptStep("modelo_copy")
    /\ UNCHANGED <<df, df_plot, df_valor, df_atendimento, df_modelo, custos_canal>>

\* line 606: df_modelo = df.copy()
CopyModelo ==
    /\ spc = "modelo_copy"
    /\ LET c == copy(heap, df)
       IN  /\ heap' = c.heap
           /\ df_modelo' = c.ref
    /\ ScriptStep("score_churn")
    /\ UNCHANGED <<df, df_plot, df_valor, df_atendimento, custos_canal>>

\* the churn score is held in 1/ChurnUnit
ChurnUnit == 100000

\* lines 607-612, for row k of table d:
\*   ((100 - satisfacao) * 0.4 + custo_atendimento_mensal * 0.2
\*    + (9 - num_produtos) * 15 + (120 / (tempo_cliente_meses + 12)) * 40) / 100
\* the last term rounded down to a whole 1/ChurnUnit
score_churn(d, k) ==
    ((100 * SatUnit - d.satisfacao[k]) * 2) \div 5
    + (d.custo_atendimento_mensal[k] \div (MoneyUnit \div 100)) * 2
    + (9 - d.num_produtos[k]) * 15 * (ChurnUnit \div 100)
    + (120 * 40 * (ChurnUnit \div 100)) \div (d.tempo_cliente_meses[k] + 12)

\* lines 607-612
StoreScoreChurn ==
    /\ spc = "score_churn"
    /\ LET d == heap[df_modelo]
       IN  heap' = SetItem(heap, df_modelo, "score_churn",
                           [k \in DOMAIN d.satisfacao |-> score_churn(d, k)])
    /\ ScriptStep("normaliza")
    /\ UNCHANGED <<df, df_plot, df_valor, df_atendimento, df_modelo, custos_canal>>

\* Series.min() and Series.max() of a non-empty column
min(s) == CHOOSE v \in Range(s) : \A w \in Range(s) : v <= w
max(s) == CHOOSE v \in Range(s) : \A w \in Range(s) : v >= w

\* mutant: the lowest score is not subtracted
NormalizeScoreChurn_no_min ==
    /\ spc = "normaliza"
    /\ LET d == heap[df_modelo]
           min_score == min(d.score_churn)
           max_score == max(d.score_churn)
       IN  heap' = SetItem(heap, df_modelo, "score_churn",
                           [k \in DOMAIN d.score_churn |->
                               [num |-> d.score_churn[k] * 100,
                                den |-> max_score - min_score]])
    /\ ScriptStep("risco_churn")
    /\ UNCHANGED <<df, df_plot, df_valor, df_atendimento, df_modelo, custos_canal>>

\* lines 613-615: ((score - min) / (max - min)) * 100, held as the exact
\* fraction num / den; den = 0 (all scores equal) is 0/0, a missing value
NormalizeScoreChurn ==
    /\ spc = "normaliza"
    /\ LET d == heap[df_modelo]
           min_score == min(d.score_churn)
           max_score == max(d.score_churn)
       IN  heap' = SetItem(heap, df_modelo, "score_churn",
                           [k \in DOMAIN d.score_churn |->
                               [num |-> (d.score_churn[k] - min_score) * 100,
                                den |-> max_score - min_score]])
    /\ ScriptStep("risco_churn")
    /\ UNCHANGED <<df, df_plot, df_valor, df_atendimento, df_modelo, custos_canal>>

\* pd.cut of a fraction
cut_fraction(x, bins, labels) ==
    IF x.den = 0 \/ x.num <= bins[1] * x.den \/ x.num > bins[Len(bins)] * x.den
    THEN "NaN"
    ELSE labels[CHOOSE i \in 1..Len(labels) :
                    bins[i] * x.den < x.num /\ x.num <= bins[i + 1] * x.den]

\* lines 616-618
StoreRiscoChurn ==
    /\ spc = "risco_churn"
    /\ LET d == heap[df_modelo]
       IN  heap' = SetItem(heap, df_modelo, "risco_churn",
                           [k \in DOMAIN d.score_churn |->
                               cut_fraction(d.score_churn[k], <<0, 25, 50, 75, 100>>,
                                            <<"Baixo", "Medio-Baixo", "Medio-Alto", "Alto">>)])
    /\ ScriptStep("canais_custo")
    /\ UNCHANGED <<df, df_plot, df_valor, df_atendimento, df_modelo, custos_canal>>

\* the order in which groupby lists the channels: sorted by name
OrdemGrupos ==
    <<"Agencia", "App", "Caixa Eletronico", "Central Telefonica", "Internet Banking">>

\* df.groupby('canal_preferido'): the group keys are the channels that occur
\* in the table, a channel without a customer has no group
groupby(d) ==
    LET occurs(c) == c \in Range(d.canal_preferido)
    IN  SelectSeq(OrdemGrupos, occurs)

\* the rows of a group
group(d, c) == {k \in DOMAIN d.canal_preferido : d.canal_preferido[k] = c}

RECURSIVE sum(_)
sum(s) == IF Len(s) = 0 THEN 0 ELSE s[Len(s)] + sum(SubSeq(s, 1, Len(s) - 1))

\* .sum() of a column over a group
group_sum(d, c, col) ==
    sum([k \in DOMAIN d[col] |-> IF k \in group(d, c) THEN d[col][k] ELSE 0])

\* .mean() of a column over a group, held as the exact fraction sum / count
group_mean(d, c, col) ==
    [num |-> group_sum(d, c, col), den |-> Cardinality(group(d, c))]

\* the quotient of two fractions, as a fraction; a zero denominator is a
\* division by zero (NaN or inf in pandas, no exception)
divide(a, b) == [num |-> a.num * b.den, den |-> a.den * b.num]

\* line 678: canais_custo = df.groupby('canal_preferido')[[...]].mean();
\* the field canal_preferido of the new object is its index
GroupCanaisCusto ==
    /\ spc = "canais_custo"
    /\ LET d == heap[df]
           keys == groupby(d)
       IN  heap' = Append(heap,
                [canal_preferido |-> keys,
                 custo_atendimento_mensal |->
                    [i \in DOMAIN keys |-> group_mean(d, keys[i], "custo_atendimento_mensal")],
                 freq_contatos_mensais |->
                    [i \in DOMAIN keys |-> group_mean(d, keys[i], "freq_contatos_mensais")]])
    /\ canais_custo' = Len(heap) + 1
    /\ ScriptStep("custo_por_contato")
    /\ UNCHANGED <<df, df_plot, df_valor, df_atendimento, df_modelo, custo_por_interacao,
                   custo_medio_app>>

\* line 679: canais_custo['custo_por_contato'] = mean cost / mean contacts
StoreCustoPorContato ==
    /\ spc = "custo_por_contato"
    /\ LET t == heap[canais_custo]
       IN  heap' = SetItem(heap, canais_custo, "custo_por_contato",
                           [i \in DOMAIN t.canal_preferido |->
                               divide(t.custo_atendimento_mensal[i],
                                      t.freq_contatos_mensais[i])])
    /\ ScriptStep("custo_medio_app")
    /\ UNCHANGED <<df, df_plot, df_valor, df_atendimento, df_modelo, custos_canal>>

\* line 683: custo_medio_app = canais_custo.loc['App', 'custo_por_contato'];
\* without a row labelled 'App' .loc raises KeyError and the run stops
ReadCustoMedioApp ==
    /\ spc = "custo_medio_app"
    /\ LET t == heap[canais_custo]
       IN  IF "App" \in Range(t.canal_preferido)
           THEN /\ custo_medio_app' =
                      t.custo_por_contato[CHOOSE i \in DOMAIN t.canal_preferido :
                                              t.canal_preferido[i] = "App"]
                /\ ScriptStep("custo_por_interacao")
           ELSE /\ custo_medio_app' = custo_medio_app
                /\ ScriptStep("end")
    /\ UNCHANGED <<heap, df, df_plot, df_valor, df_atendimento, df_modelo, canais_custo,
                   custo_por_interacao>>

\* line 897: custo_por_interacao = df.groupby('canal_preferido')[[...]].sum()
GroupCustoPorInteracao ==
    /\ spc = "custo_por_interacao"
    /\ LET d == heap[df]
           keys == groupby(d)
       IN  heap' = Append(heap,
                [canal_preferido |-> keys,
                 custo_atendimento_mensal |->
                    [i \in DOMAIN keys |-> group_sum(d, keys[i], "custo_atendimento_mensal")],
                 freq_contatos_mensais |->
                    [i \in DOMAIN keys |-> group_sum(d, keys[i], "freq_contatos_mensais")]])
    /\ custo_por_interacao' = Len(heap) + 1
    /\ ScriptStep("custo_interacao_col")
    /\ UNCHANGED <<df, df_plot, df_valor, df_atendimento, df_modelo, canais_custo,
                   custo_medio_app>>

\* mutant: total contacts divided by total cost
StoreCustoPorInteracao_inverted ==
    /\ spc = "custo_interacao_col"
    /\ LET t == heap[custo_por_interacao]
       IN  heap' = SetItem(heap, custo_por_interacao, "Custo por Interacao (R$)",
                           [i \in DOMAIN t.canal_preferido |->
                               [num |-> t.freq_contatos_mensais[i],
                                den |-> t.custo_atendimento_mensal[i]]])
    /\ ScriptStep("custo_interacao_reset")
    /\ UNCHANGED <<df, df_plot, df_valor, df_atendimento, df_modelo, custos_canal>>

\* line 898: custo_por_interacao['Custo por Interacao (R$)'] =
\* total cost / total contacts, held as the fraction num / den
StoreCustoPorInteracao ==
    /\ spc = "custo_interacao_col"
    /\ LET t == heap[custo_por_interacao]
       IN  heap' = SetItem(heap, custo_por_interacao, "Custo por Interacao (R$)",
                           [i \in DOMAIN t.canal_preferido |->
                               [num |-> t.custo_atendimento_mensal[i],
                                den |-> t.freq_contatos_mensais[i]]])
    /\ ScriptStep("custo_interacao_reset")
    /\ UNCHANGED <<df, df_plot, df_valor, df_atendimento, df_modelo, custos_canal>>

\* line 899: the name is rebound to a new table of the figure alone, the
\* index turned into the column canal_preferido
ResetCustoPorInteracao ==
    /\ spc = "custo_interacao_reset"
    /\ LET t == heap[custo_por_interacao]
       IN  heap' = Append(heap,
                [x \in {"canal_preferido", "Custo por Interacao (R$)"} |-> t[x]])
    /\ custo_por_interacao' = Len(heap) + 1
    /\ ScriptStep("end")
    /\ UNCHANGED <<df, df_plot, df_valor, df_atendimento, df_modelo, canais_custo,
                   custo_medio_app>>

\* an interaction: Streamlit runs the script again, in a fresh namespace
Rerun ==
    /\ spc = "end"
    /\ spc' = "start"
    /\ arg' = 0
    /\ hit' = FALSE
    /\ ret' = <<>>
    /\ NoObjects
    /\ UNCHANGED <<mt, np_random, py_random, pc, fr, pre, prev, cache, runs>>

\* the cache is invalidated between two runs of the script
ClearCache ==
    /\ spc = "start"
    /\ DOMAIN cache # {}
    /\ cache' = <<>>
    /\ runs' = [n \in 1..MaxN |-> 0]
    /\ UNCHANGED <<mt, np_random, py_random, pc, fr, pre, prev, spc, arg, hit, ret,
                   heap, df, df_plot, df_valor, df_atendimento, df_modelo, custos_canal>>

Consumers ==
    \/ CopyPlot \/ StoreSaldoLog
    \/ CopyValor \/ StoreScoreSaldo \/ StoreScoreFreq \/ StoreScoreValor
    \/ StoreScoreTotal \/ StoreSegmentoValor
    \/ CopyAtendimento \/ StoreFaixaContatos \/ StoreFaixaEtaria
    \/ CopyModelo \/ StoreScoreChurn \/ NormalizeScoreChurn \/ StoreRiscoChurn
    \/ GroupCanaisCusto \/ StoreCustoPorContato \/ ReadCustoMedioApp
    \/ GroupCustoPorInteracao \/ StoreCustoPorInteracao \/ ResetCustoPorInteracao

NextApp ==
    \/ \E n \in 1..MaxN : ScriptCall(n)
    \/ Body
    \/ CacheStore
    \/ Consumers
    \/ Rerun
    \/ ClearCache

SpecApp == Init /\ [][NextApp]_vars

---------------------------------------------------------------------------
(* Properties of gerar_dados *)

\* the 14 columns of the returned table
Columns ==
    {"id_cliente", "idade", "saldo_conta", "segmento", "tempo_cliente_meses",
     "num_produtos", "canal_preferido", "satisfacao", "cliente_ativo",
     "valor_transacoes_mensais", "freq_contatos_mensais", "receita_mensal",
     "custo_atendimento_mensal", "rentabilidade_mensal"}

\* the positions of a call that has not got past its first draw
BeforeFirstDraw == {"seed", "clock", "ids", "idades"}

\* C1: two calls of gerar_dados with the same record count return equal
\* tables: the table a call returns equals, column by column and row by row,
\* the table the last returning call before it returned, when both had the
\* same n_linhas, whatever the generators' states and the clock were.
C1_Determinism ==
    (pc = "done" /\ prev.n = fr.n_linhas) => fr.df = prev.df

\* a call has returned after an earlier call with the same positive count that
\* found the generators in another state and read another clock value
C1_Witness ==
    /\ pc = "done"
    /\ prev.n = fr.n_linhas
    /\ fr.n_linhas > 0
    /\ prev.pre # pre
    /\ prev.data_atual # fr.data_atual

\* C2 as claimed: a call with a record count <= 0 never gets past its first
\* draw: it ends in the error and returns no table.
C2_NonPositiveRejected ==
    (fr.n_linhas <= 0 /\ pc # "idle") => pc \in BeforeFirstDraw \cup {"raised"}

\* C2 as amended: a call with a negative record count ends in the error of
\* its first draw, with no value drawn since the seeding and no table built;
\* only such a call raises; a call with record count 0 returns a table of
\* the 14 columns and no rows.
C2_NegativeRaisesZeroReturnsEmpty ==
    /\ fr.n_linhas < 0 => pc \in BeforeFirstDraw \cup {"raised"}
    /\ pc = "raised" =>
          /\ fr.n_linhas < 0
          /\ np_random = seed(42)
          /\ DOMAIN fr.df = {}
    /\ (pc = "done" /\ fr.n_linhas = 0) =>
          /\ DOMAIN fr.df = Columns
          /\ \A c \in Columns : DOMAIN fr.df[c] = {}

\* a call with a negative count has raised after a call with count 0 returned
C2_Witness == pc = "raised" /\ prev.n = 0

\* C3: for n_linhas > 0 the returned table has exactly n_linhas rows in every
\* column and id_cliente is 1, 2, ..., n_linhas in row order.
C3_Cardinality ==
    (pc = "done" /\ fr.n_linhas > 0) =>
        /\ \A c \in DOMAIN fr.df : DOMAIN fr.df[c] = 1..fr.n_linhas
        /\ \A k \in 1..fr.n_linhas : fr.df.id_cliente[k] = k

C3_Witness == pc = "done" /\ fr.n_linhas >= 2 /\ fr.df.id_cliente[2] = 2

\* the bounds of the clipped columns, for row k of table d
IdadeOk(d, k)   == 18 <= d.idade[k] /\ d.idade[k] <= 85
TempoOk(d, k)   == 1 <= d.tempo_cliente_meses[k] /\ d.tempo_cliente_meses[k] <= 480
ProdutosOk(d, k) == 1 <= d.num_produtos[k] /\ d.num_produtos[k] <= 8
SatisfacaoOk(d, k) == 0 <= d.satisfacao[k] /\ d.satisfacao[k] <= 100 * SatUnit
FreqOk(d, k)    == 0 <= d.freq_contatos_mensais[k] /\ d.freq_contatos_mensais[k] <= 30

\* C4: every row of the returned table has 18 <= idade <= 85, saldo_conta >= 0,
\* 1 <= tempo_cliente_meses <= 480, 1 <= num_produtos <= 8,
\* 0 <= satisfacao <= 100 and 0 <= freq_contatos_mensais <= 30.
C4_Bounds ==
    pc = "done" =>
        \A k \in Rows :
            /\ IdadeOk(fr.df, k)
            /\ fr.df.saldo_conta[k] >= 0
            /\ TempoOk(fr.df, k)
            /\ ProdutosOk(fr.df, k)
            /\ SatisfacaoOk(fr.df, k)
            /\ FreqOk(fr.df, k)

\* a returned table in which clipping has acted: a score boosted past 100 and
\* a product count boosted past 8 were both brought back
C4_Witness ==
    /\ pc = "done"
    /\ \E k \in Rows : /\ fr.df.satisfacao[k] = 100 * SatUnit
                       /\ fr.df.segmento[k] # "Varejo"
    /\ \E k \in Rows : /\ fr.df.num_produtos[k] = 8
                       /\ fr.num_produtos[k] + (fr.tempo_cliente[k] \div 120) > 8

\* C5: in every row of the returned table rentabilidade_mensal is the stored
\* receita_mensal minus the stored custo_atendimento_mensal, rounded to 2
\* decimals.
C5_Rentabilidade ==
    pc = "done" =>
        \A k \in Rows :
            fr.df.rentabilidade_mensal[k] =
                round(fr.df.receita_mensal[k] - fr.df.custo_atendimento_mensal[k],
                      MoneyUnit \div 100)

\* a returned row with a cost, whose revenue was changed by the rounding
C5_Witness ==
    /\ pc = "done"
    /\ \E k \in Rows : /\ fr.df.custo_atendimento_mensal[k] > 0
                       /\ fr.df.receita_mensal[k] # fr.base_receita[k]

\* the unit cost of a contact through each channel, in 1/MoneyUnit
UnitCost(canal) ==
    CASE canal = "App"                -> MoneyUnit \div 2
      [] canal = "Internet Banking"   -> MoneyUnit
      [] canal = "Caixa Eletronico"   -> 3 * MoneyUnit
      [] canal = "Central Telefonica" -> 7 * MoneyUnit
      [] canal = "Agencia"            -> 15 * MoneyUnit

\* C6: in every row of the returned table custo_atendimento_mensal is the
\* unit cost of the row's channel times freq_contatos_mensais, rounded to 2
\* decimals, and the row's channel has an entry in the cost table.
C6_Custo ==
    pc = "done" =>
        \A k \in Rows :
            /\ fr.df.canal_preferido[k] \in DOMAIN custos_base
            /\ fr.df.custo_atendimento_mensal[k] =
                  round(UnitCost(fr.df.canal_preferido[k]) * fr.df.freq_contatos_mensais[k],
                        MoneyUnit \div 100)

\* a returned row of the least likely channel, with contacts
C6_Witness ==
    /\ pc = "done"
    /\ \E k \in Rows : /\ fr.df.canal_preferido[k] = "Caixa Eletronico"
                       /\ fr.df.freq_contatos_mensais[k] > 0

\* C7 as claimed: when a call has ended, the two global generators are in the
\* state they had when it was entered.
C7_GeneratorsUntouched ==
    pc \in {"done", "raised"} => <<np_random, py_random>> = pre

\* C7 as amended: a call leaves both global generators re-seeded, whatever
\* they were before: Python's in the start state of seed 42, numpy's in the
\* state reached from seed 42 by the 12 * n_linhas values the call drew (none
\* when it raised).
C7_GeneratorsReseeded ==
    /\ pc = "done" =>
          /\ py_random = seed(42)
          /\ np_random = Advance(seed(42), 12 * fr.n_linhas)
    /\ pc = "raised" =>
          /\ py_random = seed(42)
          /\ np_random = seed(42)

\* a call of a positive count has returned and both generators differ from
\* what they were at its entry
C7_Witness ==
    /\ pc = "done"
    /\ fr.n_linhas > 0
    /\ np_random # pre[1]
    /\ py_random # pre[2]

\* the clipped columns of row k of table d are within their bounds
ClippedOk(d, k) ==
    /\ IdadeOk(d, k)
    /\ TempoOk(d, k)
    /\ ProdutosOk(d, k)
    /\ SatisfacaoOk(d, k)
    /\ FreqOk(d, k)

\* C10 as claimed: from the moment the initial table is built, in every
\* state of the call, every clipped column of every row is within its bound.
C10_InBoundsAtEveryStep ==
    DOMAIN fr.df # {} => \A k \in Rows : ClippedOk(fr.df, k)

\* C10 as amended: from the moment the initial table is built, every clipped
\* column of every row is within its bound in every state of the call except
\* the two between a boost and the clip that follows it: after line 139 and
\* before line 140 satisfacao of the rows of the segment at hand may lie
\* between 100 and 115, and after line 154 and before line 155 num_produtos
\* may lie between 8 and 12; all other columns are within bounds there too.
C10_InBoundsOutsideBoostClip ==
    DOMAIN fr.df # {} =>
        \A k \in Rows :
            /\ IdadeOk(fr.df, k)
            /\ TempoOk(fr.df, k)
            /\ FreqOk(fr.df, k)
            /\ IF pc = "satisfacao_clip" /\ fr.df.segmento[k] = SegmentosLista[fr.i + 1]
               THEN 0 <= fr.df.satisfacao[k] /\ fr.df.satisfacao[k] <= 115 * SatUnit
               ELSE SatisfacaoOk(fr.df, k)
            /\ IF pc = "produtos_clip"
               THEN 1 <= fr.df.num_produtos[k] /\ fr.df.num_produtos[k] <= 12
               ELSE ProdutosOk(fr.df, k)

\* a boosted score above 100 was clipped back and a boosted product count is
\* above 8 before its clip
C10_Witness ==
    /\ pc = "produtos_clip"
    /\ \E k \in Rows : fr.df.num_produtos[k] > 8
    /\ \E k \in Rows : /\ fr.df.satisfacao[k] = 100 * SatUnit
                       /\ fr.df.segmento[k] # "Varejo"

---------------------------------------------------------------------------
(* Properties of the script *)

\* C8: over any sequence of script runs the body of gerar_dados runs at most
\* once per record count since the cache was last invalidated: a count has
\* an entry in the cache (or its first call is under way) exactly when the
\* body ran once for it, and a call answered from the cache hands the script
\* the stored table while the body is not running.
C8_BodyOncePerCount ==
    /\ \A n \in 1..MaxN :
          /\ runs[n] <= 1
          /\ runs[n] = 1 <=> (n \in DOMAIN cache \/ (spc = "gerando" /\ arg = n))
    /\ hit => /\ arg \in DOMAIN cache
              /\ ret = cache[arg]
              /\ spc # "gerando"

\* a call was answered from the cache after the argument had changed to
\* another count and back: both counts are cached, each generated once
C8_Witness ==
    /\ hit
    /\ Cardinality(DOMAIN cache) = 2
    /\ runs[arg] = 1
    /\ Len(heap) > 0

\* C9: from the moment the script has its table, df names a table with the
\* 14 columns and exactly the values the call handed over, at every later
\* point of the script run.
C9_TableUnchanged ==
    df # 0 => /\ DOMAIN heap[df] = Columns
              /\ heap[df] = ret

\* the script has written all its derived columns
C9_Witness ==
    /\ spc = "end"
    /\ "saldo_log" \in DOMAIN heap[df_plot]
    /\ {"score_saldo", "score_freq", "score_valor", "score_total", "segmento_valor"}
           \subseteq DOMAIN heap[df_valor]
    /\ {"faixa_contatos", "faixa_etaria"} \subseteq DOMAIN heap[df_atendimento]
    /\ {"score_churn", "risco_churn"} \subseteq DOMAIN heap[df_modelo]
    /\ \E k \in DOMAIN heap[df_modelo].risco_churn :
           heap[df_modelo].risco_churn[k] = "Alto"

---------------------------------------------------------------------------
(* Properties of the generated columns *)

\* the rank of a segment in the order the passes enumerate them: Varejo 0,
\* Premium 1, Alta Renda 2, Private 3
Rank(seg) == CHOOSE i \in 0..3 : SegmentosLista[i + 1] = seg

\* the rows of the running call's table that belong to the segment of rank r
SegRows(r) == {k \in Rows : fr.df.segmento[k] = SegmentosLista[r + 1]}

\* the sum of f[k] over the rows k in S
RECURSIVE SumOver(_, _)
SumOver(f, S) ==
    IF S = {} THEN 0
    ELSE LET k == CHOOSE x \in S : TRUE IN f[k] + SumOver(f, S \ {k})

\* the balance as drawn, clipped and rounded to 2 decimals (lines 82-83, 119)
DrawnSaldo == [k \in Rows |-> round(fr.saldos[k], SaldoUnit \div 100)]

\* saldo_conta of the running call's table in half cents
SaldoHalfCents == [k \in Rows |-> fr.df.saldo_conta[k] \div (SaldoUnit \div 200)]

\* mean of f over the rows A is greater than (or at least) its mean over B
MeanGreater(f, A, B) ==
    SumOver(f, A) * Cardinality(B) > SumOver(f, B) * Cardinality(A)
MeanAtLeast(f, A, B) ==
    SumOver(f, A) * Cardinality(B) >= SumOver(f, B) * Cardinality(A)

Decimals(x, unit, per) == x % (unit \div per) = 0

DrawnReceita(k) ==
    LogNormal3[Raw(mt, 42, (11 * fr.n_linhas + k - 1) % Period) + 1] * 10

\* C13: in every row of the returned table receita_mensal is the log-normal
\* draw times 10, times 1 + rank * 0.5 for the row's segment, times
\* 1 + num_produtos * 0.2 with the final product count, plus 0.01 times the
\* final valor_transacoes_mensais, the sum times 1.5 exactly when
\* cliente_ativo is true, rounded to 2 decimals.
C13_Receita ==
    pc = "done" =>
        \A k \in Rows :
            LET a == (DrawnReceita(k) \div 2) * (2 + Rank(fr.df.segmento[k]))
                b == (a \div 5) * (5 + fr.df.num_produtos[k])
                c == b + fr.df.valor_transacoes_mensais[k] * (MoneyUnit \div (100 * ValorUnit))
                d == IF fr.df.cliente_ativo[k] THEN (c \div 2) * 3 ELSE c
            IN  fr.df.receita_mensal[k] = round(d, MoneyUnit \div 100)

\* a returned table with an active and an inactive customer, a row of a
\* segment above Varejo and a row whose product count was raised by tenure
C13_Witness ==
    /\ pc = "done"
    /\ \E k \in Rows : fr.df.cliente_ativo[k]
    /\ \E k \in Rows : ~fr.df.cliente_ativo[k]
    /\ \E k \in Rows : Rank(fr.df.segmento[k]) > 0
    /\ \E k \in Rows : fr.df.num_produtos[k] > fr.num_produtos[k]

\* the positions of a call after the channel-conditioned age pass
AfterIdadePass ==
    {"produtos_tempo", "produtos_clip", "base_receita", "receita_segmento",
     "receita_produtos", "receita_transacoes", "receita_ativos", "receita_mensal",
     "custos", "custo_canal", "custo_mensal", "rentabilidade", "return", "done"}

\* the channels in the order of the age pass, with the mean age of each
OrdemIdade ==
    <<"App", "Internet Banking", "Caixa Eletronico", "Central Telefonica", "Agencia">>
MediaIdade == <<30, 38, 46, 54, 62>>
IndiceCanal(c) == CHOOSE i \in 1..5 : OrdemIdade[i] = c

\* the position in the stream of seed 42 of the value re-drawn for row k:
\* after the 10 * n_linhas initial draws, the rows of the earlier channels,
\* and the earlier rows of the same channel
PosIdade(k) ==
    10 * fr.n_linhas
    + Cardinality({j \in Rows : IndiceCanal(fr.df.canal_preferido[j])
                                    < IndiceCanal(fr.df.canal_preferido[k])})
    + Cardinality({j \in Rows : j < k /\ fr.df.canal_preferido[j]
                                            = fr.df.canal_preferido[k]})

\* the age re-drawn for row k: normal(mean of its channel, 5), clipped to
\* 18..85, truncated
IdadeCanal(k) ==
    astype_int(clip(normal(MediaIdade[IndiceCanal(fr.df.canal_preferido[k])], 5,
                           Raw(mt, 42, PosIdade(k) % Period)),
                    180, 850))

\* C14: once the age pass is over, idade of every row is the value re-drawn
\* for the row's channel, whatever its initial age was; while the pass runs,
\* the rows of the channels already handled hold their re-drawn value and the
\* other rows still their initial age: each row is overwritten exactly once.
C14_IdadeOverwritten ==
    /\ pc \in AfterIdadePass =>
          \A k \in Rows : fr.df.idade[k] = IdadeCanal(k)
    /\ pc = "idade_canal" =>
          \A k \in Rows :
              fr.df.idade[k] = IF IndiceCanal(fr.df.canal_preferido[k]) <= fr.i
                               THEN IdadeCanal(k)
                               ELSE fr.idades[k]

\* a returned table with rows of two channels, in which every row's age
\* differs from its initial age
C14_Witness ==
    /\ pc = "done"
    /\ fr.n_linhas >= 2
    /\ \E j, k \in Rows : fr.df.canal_preferido[j] # fr.df.canal_preferido[k]
    /\ \A k \in Rows : fr.df.idade[k] # fr.idades[k]

\* the statements that draw n_linhas values each, in the order of the claim,
\* by the position of the call before them
OrdemDraws ==
    <<"idades", "saldos", "segmentos", "tempo_cliente", "num_produtos", "canais",
      "satisfacao", "ativo", "valor_transacoes", "freq_contatos">>

\* the positions of a call between the initial draws and the age pass
BeforeIdadePass ==
    {"dataframe", "saldo_segmento", "satisfacao_segmento", "satisfacao_clip",
     "valor_produtos"}

\* the positions of a call after the revenue draw
AfterReceitaDraw ==
    {"receita_segmento", "receita_produtos", "receita_transacoes", "receita_ativos",
     "receita_mensal", "custos", "custo_canal", "custo_mensal", "rentabilidade",
     "return", "done"}

\* how many values of the stream of seed 42 the call has consumed
Consumed == IF np_random.seed = 42 THEN np_random.pos ELSE 0 - 1

\* C15: the stream of seed 42 is consumed in the order idade, saldo,
\* segmento, tempo_cliente, num_produtos, canal, satisfacao, ativo,
\* valor_transacoes, freq_contatos (n_linhas values each), then by the age
\* pass channel by channel in the order App, Internet Banking, Caixa
\* Eletronico, Central Telefonica, Agencia, as many values as the channel has
\* rows, then n_linhas values for the revenue, and nothing after that: before
\* each of these statements the call has consumed exactly the values of the
\* statements before it, and the initial ages and contact frequencies are
\* the values at the first and the tenth block of the stream.
C15_DrawOrder ==
    /\ \A j \in 1..10 :
          pc = OrdemDraws[j] => Consumed = ((j - 1) * fr.n_linhas) % Period
    /\ pc \in BeforeIdadePass => Consumed = (10 * fr.n_linhas) % Period
    /\ pc = "idade_canal" =>
          Consumed = (10 * fr.n_linhas
                      + Cardinality({k \in Rows :
                            IndiceCanal(fr.df.canal_preferido[k]) <= fr.i})) % Period
    /\ pc \in {"produtos_tempo", "produtos_clip", "base_receita"} =>
          Consumed = (11 * fr.n_linhas) % Period
    /\ pc \in AfterReceitaDraw => Consumed = (12 * fr.n_linhas) % Period
    /\ \A k \in DOMAIN fr.idades :
          fr.idades[k] = clip(astype_int(normal(42, 15, Raw(mt, 42, (k - 1) % Period))),
                              18, 85)
    /\ \A k \in DOMAIN fr.freq_contatos :
          fr.freq_contatos[k] =
              clip(Poisson3[Raw(mt, 42, (9 * fr.n_linhas + k - 1) % Period) + 1], 0, 30)
    /\ \A k \in DOMAIN fr.base_receita :
          pc = "receita_segmento" /\ fr.i = 0 => fr.base_receita[k] = DrawnReceita(k)

\* the age pass has handled the first three channels of a table that has a
\* row of the third and a row of a later one
C15_Witness ==
    /\ pc = "idade_canal"
    /\ fr.i = 3
    /\ \E k \in Rows : fr.df.canal_preferido[k] = "Caixa Eletronico"
    /\ \E k \in Rows : fr.df.canal_preferido[k] \in {"Central Telefonica", "Agencia"}

\* the positions of a call after the transaction-value pass
AfterValorPass == {"idade_canal"} \cup AfterIdadePass

\* the transaction value as drawn, clipped and rounded to 2 decimals
\* (lines 108-109, 126)
DrawnValor == [k \in Rows |-> round(fr.valor_transacoes[k], ValorUnit \div 100)]

\* v * (1 + p * 0.15)
BoostedValor(v, p) == (v \div 20) * (20 + 3 * p)

\* C16: once the transaction-value pass is over, valor_transacoes_mensais of
\* every row is its drawn value times 1 + p * 0.15, p being the product count
\* as initially drawn and clipped; the tenure boost of the product count that
\* comes later changes nothing of it.  While the pass runs, the rows with a
\* count below the one at hand are boosted, the others not yet: each row is
\* multiplied exactly once.
C16_ValorBoost ==
    /\ pc \in AfterValorPass =>
          \A k \in Rows :
              fr.df.valor_transacoes_mensais[k]
                  = BoostedValor(DrawnValor[k], fr.num_produtos[k])
    /\ pc = "valor_produtos" =>
          \A k \in Rows :
              fr.df.valor_transacoes_mensais[k]
                  = IF fr.num_produtos[k] < fr.i
                    THEN BoostedValor(DrawnValor[k], fr.num_produtos[k])
                    ELSE DrawnValor[k]

\* a returned row with a positive transaction value whose product count was
\* raised by the tenure boost after the value had been boosted
C16_Witness ==
    /\ pc = "done"
    /\ \E k \in Rows :
          /\ fr.df.num_produtos[k] > fr.num_produtos[k]
          /\ fr.df.valor_transacoes_mensais[k] > 0
          /\ fr.df.valor_transacoes_mensais[k]
                 # BoostedValor(DrawnValor[k], fr.df.num_produtos[k])

\* the positions of a call from the first pass to the return, in order
PcOrder ==
    <<"saldo_segmento", "satisfacao_segmento", "satisfacao_clip", "valor_produtos",
      "idade_canal", "produtos_tempo", "produtos_clip", "base_receita",
      "receita_segmento", "receita_produtos", "receita_transacoes",
      "receita_ativos", "receita_mensal", "custos", "custo_canal", "custo_mensal",
      "rentabilidade", "return", "done">>

\* the positions that come after position l
After(l) ==
    LET j == CHOOSE x \in DOMAIN PcOrder : PcOrder[x] = l
    IN  {PcOrder[x] : x \in (j + 1)..Len(PcOrder)}

\* the factor of the segment of rank r is (r + 1) * 1.5: 1.5, 3.0, 4.5, 6.0
ScaledSaldo(x, r) == ((x \div 2) * 3) * (r + 1)

\* C17: once the balance pass is over, saldo_conta of every row is the drawn
\* balance (clipped to 0..500000, rounded to 2 decimals) times the factor of
\* the row's own segment: Varejo 1.5, Premium 3.0, Alta Renda 4.5, Private
\* 6.0.  While the pass runs, the rows of the segments already handled are
\* scaled and the others hold the drawn balance: each row is multiplied
\* exactly once.
C17_SaldoScaledOnce ==
    /\ pc \in {"saldo_segmento"} \cup After("saldo_segmento") =>
          \A k \in Rows :
              0 <= DrawnSaldo[k] /\ DrawnSaldo[k] <= 500000 * SaldoUnit
    /\ pc \in After("saldo_segmento") =>
          \A k \in Rows :
              fr.df.saldo_conta[k] = ScaledSaldo(DrawnSaldo[k], Rank(fr.df.segmento[k]))
    /\ pc = "saldo_segmento" =>
          \A k \in Rows :
              fr.df.saldo_conta[k] = IF Rank(fr.df.segmento[k]) < fr.i
                                     THEN ScaledSaldo(DrawnSaldo[k], Rank(fr.df.segmento[k]))
                                     ELSE DrawnSaldo[k]

\* a returned table with a row of Varejo and a row of Private, both with a
\* positive balance, one of them drawn above the cap of 500000
C17_Witness ==
    /\ pc = "done"
    /\ \E j, k \in Rows :
          /\ fr.df.segmento[j] = "Varejo"
          /\ fr.df.segmento[k] = "Private"
          /\ fr.df.saldo_conta[j] > 0
          /\ fr.df.saldo_conta[k] > 0
          /\ 500000 * SaldoUnit \in {DrawnSaldo[j], DrawnSaldo[k]}

\* the score as drawn and rounded to 1 decimal (lines 102, 124)
DrawnSatisfacao == [k \in Rows |-> round(fr.satisfacao[k], SatUnit \div 10)]

\* s * (1 + r * 0.05)
BoostedSatisfacao(s, r) == (s \div 100) * (100 + 5 * r)

\* the smaller of two numbers
Min(a, b) == IF a < b THEN a ELSE b

\* C18: once the satisfaction pass is over, satisfacao of every row is
\* min(100, s * (1 + rank * 0.05)), s being the drawn score rounded to 1
\* decimal and rank the rank of the row's segment; the rows of Varejo keep s.
\* While the pass runs, the rows of the segments already handled hold that
\* value, the rows of the segment at hand the boosted value before its clip,
\* the others s.
C18_SatisfacaoBoost ==
    /\ pc \in After("satisfacao_clip") =>
          \A k \in Rows :
              /\ fr.df.satisfacao[k]
                     = Min(100 * SatUnit,
                           BoostedSatisfacao(DrawnSatisfacao[k], Rank(fr.df.segmento[k])))
              /\ fr.df.segmento[k] = "Varejo" =>
                     fr.df.satisfacao[k] = DrawnSatisfacao[k]
    /\ pc \in {"satisfacao_segmento", "satisfacao_clip"} =>
          \A k \in Rows :
              LET r == Rank(fr.df.segmento[k])
                  b == BoostedSatisfacao(DrawnSatisfacao[k], r)
              IN  fr.df.satisfacao[k] =
                      IF r < fr.i THEN Min(100 * SatUnit, b)
                      ELSE IF r = fr.i /\ pc = "satisfacao_clip" THEN b
                      ELSE DrawnSatisfacao[k]

\* a returned table with a row of Varejo, and a row of a higher segment whose
\* boosted score stays below 100 and differs from the drawn one
C18_Witness ==
    /\ pc = "done"
    /\ \E j, k \in Rows :
          /\ fr.df.segmento[j] = "Varejo"
          /\ fr.df.satisfacao[j] > 0
          /\ fr.df.segmento[k] # "Varejo"
          /\ fr.df.satisfacao[k] > DrawnSatisfacao[k]
          /\ fr.df.satisfacao[k] < 100 * SatUnit

\* C19: once the tenure pass is over, num_produtos of every row is
\* min(8, p0 + floor(tempo_cliente_meses / 120)), p0 being the product count
\* as initially drawn and clipped; it is never below p0 and at most 4 above.
C19_ProdutosBoost ==
    pc \in After("produtos_clip") =>
        \A k \in Rows :
            /\ fr.df.num_produtos[k]
                   = Min(8, fr.num_produtos[k] + (fr.df.tempo_cliente_meses[k] \div 120))
            /\ fr.df.num_produtos[k] >= fr.num_produtos[k]
            /\ fr.df.num_produtos[k] <= fr.num_produtos[k] + 4

\* a returned table with a row raised by the tenure boost and a row of less
\* than 120 months that keeps its count
C19_Witness ==
    /\ pc = "done"
    /\ \E k \in Rows : fr.df.num_produtos[k] > fr.num_produtos[k]
    /\ \E k \in Rows :
          /\ fr.df.tempo_cliente_meses[k] < 120
          /\ fr.df.num_produtos[k] = fr.num_produtos[k]

\* C20: from the moment the initial table is built, every row has one
\* segmento out of the four segments and one canal_preferido out of the five
\* channels, and segmento, canal_preferido, tempo_cliente_meses,
\* cliente_ativo and freq_contatos_mensais hold in every later state of the
\* call the values they were drawn with: no pass writes them.
C20_FrameOfPasses ==
    pc \in {"saldo_segmento"} \cup After("saldo_segmento") =>
        /\ \A k \in Rows :
              /\ fr.df.segmento[k] \in Range(SegmentosLista)
              /\ fr.df.canal_preferido[k] \in Range(CanaisLista)
        /\ fr.df.segmento = fr.segmentos
        /\ fr.df.canal_preferido = fr.canais
        /\ fr.df.tempo_cliente_meses = fr.tempo_cliente
        /\ fr.df.cliente_ativo = fr.ativo
        /\ fr.df.freq_contatos_mensais = fr.freq_contatos

\* a returned table with rows of two segments and two channels, a tenure
\* above 8 months, and a balance, an age and a product count that the passes
\* changed
C20_Witness ==
    /\ pc = "done"
    /\ \E j, k \in Rows :
          /\ fr.df.segmento[j] # fr.df.segmento[k]
          /\ fr.df.canal_preferido[j] # fr.df.canal_preferido[k]
    /\ \E k \in Rows : fr.df.tempo_cliente_meses[k] > 8
    /\ \E k \in Rows : fr.df.saldo_conta[k] # DrawnSaldo[k]
    /\ \E k \in Rows : fr.df.idade[k] # fr.idades[k]
    /\ \E k \in Rows : fr.df.num_produtos[k] # fr.num_produtos[k]

\* C21: in every row of the returned table receita_mensal >= 0 and
\* custo_atendimento_mensal >= 0, whatever the draws were.
C21_ReceitaCustoNonNegative ==
    pc = "done" =>
        \A k \in Rows :
            /\ fr.df.receita_mensal[k] >= 0
            /\ fr.df.custo_atendimento_mensal[k] >= 0

\* a returned table with a row without contacts, whose cost is 0, and a row
\* whose cost exceeds its revenue
C21_Witness ==
    /\ pc = "done"
    /\ \E k \in Rows : /\ fr.df.freq_contatos_mensais[k] = 0
                       /\ fr.df.custo_atendimento_mensal[k] = 0
    /\ \E k \in Rows : fr.df.custo_atendimento_mensal[k] > fr.df.receita_mensal[k]

\* C22: in every row of the returned table saldo_conta is at most
\* 500000 * 1.5 * (rank + 1) for the rank of the row's segment, so at most
\* 3000000, and valor_transacoes_mensais is at most 50000 * (1 + 0.15 * p0)
\* for the product count p0 the row was drawn with, so at most 110000.
C22_ScaledCaps ==
    pc = "done" =>
        \A k \in Rows :
            /\ fr.df.saldo_conta[k]
                   <= ScaledSaldo(500000 * SaldoUnit, Rank(fr.df.segmento[k]))
            /\ fr.df.saldo_conta[k] <= 3000000 * SaldoUnit
            /\ fr.df.valor_transacoes_mensais[k]
                   <= BoostedValor(50000 * ValorUnit, fr.num_produtos[k])
            /\ fr.df.valor_transacoes_mensais[k] <= 110000 * ValorUnit

\* a returned table with a balance at the cap of a segment above Varejo and
\* a transaction value at the cap of its product count
C22_Witness ==
    /\ pc = "done"
    /\ \E k \in Rows :
          /\ Rank(fr.df.segmento[k]) > 0
          /\ fr.df.saldo_conta[k]
                 = ScaledSaldo(500000 * SaldoUnit, Rank(fr.df.segmento[k]))
    /\ \E k \in Rows :
          fr.df.valor_transacoes_mensais[k]
              = BoostedValor(50000 * ValorUnit, fr.num_produtos[k])

---------------------------------------------------------------------------
(* Properties of the derived columns of the script *)

\* the script has stored column c in the copy that reference r names
Stored(r, c) == r # 0 /\ c \in DOMAIN heap[r]

\* C23 as claimed: once risco_churn is stored, every customer has one of the
\* four levels Baixo, Medio-Baixo, Medio-Alto, Alto.
C23_EveryCustomerHasRisk ==
    Stored(df_modelo, "risco_churn") =>
        \A k \in DOMAIN heap[df_modelo].risco_churn :
            heap[df_modelo].risco_churn[k]
                \in {"Baixo", "Medio-Baixo", "Medio-Alto", "Alto"}

\* C24 as claimed: once faixa_contatos is stored, every customer has one of
\* the bands 0-2, 3-5, 6-10, 11+, and the customers with 0, 1 or 2 contacts
\* have the band 0-2.
C24_EveryCustomerHasBand ==
    Stored(df_atendimento, "faixa_contatos") =>
        \A k \in DOMAIN heap[df_atendimento].faixa_contatos :
            /\ heap[df_atendimento].faixa_contatos[k] \in {"0-2", "3-5", "6-10", "11+"}
            /\ heap[df_atendimento].freq_contatos_mensais[k] <= 2 =>
                   heap[df_atendimento].faixa_contatos[k] = "0-2"

\* score_churn of df_modelo holds the normalized score
Normalized == Stored(df_modelo, "score_churn") /\ spc \notin {"normaliza"}

\* the raw scores of the rows of df_modelo (lines 607-612)
RawScores ==
    [k \in DOMAIN heap[df_modelo].satisfacao |-> score_churn(heap[df_modelo], k)]

\* C25 as claimed: after the normalization the highest and the lowest raw
\* score differ, every score lies in 0..100, the lowest raw score is mapped
\* to 0 and the highest to 100.
C25_NormalizedNeverDividesByZero ==
    Normalized =>
        \A k \in DOMAIN RawScores :
            LET x == heap[df_modelo].score_churn[k]
            IN  /\ x.den # 0
                /\ 0 <= x.num /\ x.num <= 100 * x.den
                /\ RawScores[k] = min(RawScores) => x.num = 0
                /\ RawScores[k] = max(RawScores) => x.num = 100 * x.den

\* C25 as amended: when the highest and the lowest raw score of the table
\* differ, every normalized score lies in 0..100, the lowest raw score is
\* mapped to 0 and the highest to 100; when they are equal, as they are in a
\* table of one row, the division is 0 / 0 for every row.
C25_NormalizedUnlessAllEqual ==
    Normalized =>
        \A k \in DOMAIN RawScores :
            LET x == heap[df_modelo].score_churn[k]
            IN  /\ x.den = max(RawScores) - min(RawScores)
                /\ x.den # 0 =>
                      /\ 0 <= x.num /\ x.num <= 100 * x.den
                      /\ RawScores[k] = min(RawScores) => x.num = 0
                      /\ RawScores[k] = max(RawScores) => x.num = 100 * x.den
                /\ x.den = 0 => x.num = 0
                /\ Len(RawScores) = 1 => x.den = 0

\* the normalized scores of a table of two rows with different raw scores
C25_Witness ==
    /\ Normalized
    /\ Len(RawScores) = 2
    /\ heap[df_modelo].score_churn[1].den > 0
    /\ \E k \in 1..2 : heap[df_modelo].score_churn[k].num = 0
    /\ \E k \in 1..2 : heap[df_modelo].score_churn[k].num
                           = 100 * heap[df_modelo].score_churn[k].den

\* C26: once faixa_etaria is stored, every customer has the one band that
\* holds its age: 18-30 up to 30, 31-45 up to 45, 46-60 up to 60, 61+ above.
C26_EveryCustomerHasAgeBand ==
    Stored(df_atendimento, "faixa_etaria") =>
        \A k \in DOMAIN heap[df_atendimento].faixa_etaria :
            LET a == heap[df_atendimento].idade[k]
            IN  /\ 18 <= a /\ a <= 85
                /\ heap[df_atendimento].faixa_etaria[k] =
                      IF a <= 30 THEN "18-30"
                      ELSE IF a <= 45 THEN "31-45"
                      ELSE IF a <= 60 THEN "46-60"
                      ELSE "61+"

\* the bands of a table with a customer of the lowest age, 18
C26_Witness ==
    /\ Stored(df_atendimento, "faixa_etaria")
    /\ \E k \in DOMAIN heap[df_atendimento].idade :
          /\ heap[df_atendimento].idade[k] = 18
          /\ heap[df_atendimento].faixa_etaria[k] = "18-30"

\* the customers of a channel in the script's table, and their totals
ClientesCanal(c) == {k \in DOMAIN heap[df].canal_preferido : heap[df].canal_preferido[k] = c}
TotalCusto(c) == SumOver(heap[df].custo_atendimento_mensal, ClientesCanal(c))
TotalContatos(c) == SumOver(heap[df].freq_contatos_mensais, ClientesCanal(c))

\* the rows of a per-channel table that carry channel c
Linhas(t, c) == {i \in DOMAIN t.canal_preferido : t.canal_preferido[i] = c}

\* the fraction x is exactly channel c's unit cost
IsUnitCost(x, c) == x.den # 0 /\ x.num = UnitCost(c) * x.den

====
